---- MODULE Spec2Model ----
(***************************************************************************)
(* A state-machine model of the call-recorder admin console: the auth      *)
(* store, the route guards and sidebar, and the local state of the list    *)
(* views (call logs, devices, users, admins, branches).                    *)
(***************************************************************************)
EXTENDS Integers, Sequences, FiniteSets, TLC

(***************************************************************************)
(* Bounds of the exploration.                                              *)
(***************************************************************************)
\* handler invocations (user events) explored on a view after it is mounted
MaxSteps == 2
\* largest last_page a query result reports
MaxLastPage == 3

(***************************************************************************)
(* JavaScript values.  A filter object is a function from the keys that    *)
(* are present to values; a key may be present with the value undefined.   *)
(***************************************************************************)
Undefined == [t |-> "undefined"]
Null == [t |-> "null"]
NaN == [t |-> "NaN"]
Num(n) == [t |-> "number", v |-> n]
Str(s) == [t |-> "string", v |-> s]

Truthy(x) ==
  \/ x.t = "number" /\ x.v /= 0
  \/ x.t = "string" /\ x.v /= ""

\* value || undefined
OrUndefined(x) == IF Truthy(x) THEN x ELSE Undefined

EmptyObject == <<>>

\* obj[key] of a JavaScript object: undefined when the key is missing
Get(obj, k) == IF k \in DOMAIN obj THEN obj[k] ELSE Undefined

\* { ...a, ...b }
Spread(a, b) ==
  [k \in DOMAIN a \cup DOMAIN b |-> IF k \in DOMAIN b THEN b[k] ELSE a[k]]

\* array.includes(x) on an array of numbers
Includes(arr, x) == \E i \in 1..Len(arr) : Num(arr[i]) = x

(***************************************************************************)
(* parseInt on the text of an input, given as a sequence of characters:    *)
(* an optional minus sign, then the longest run of digits; NaN if none.    *)
(***************************************************************************)
DigitChars == {"0", "1", "2", "3", "4", "5", "6", "7", "8", "9"}

DigitValue(c) ==
  CASE c = "0" -> 0 [] c = "1" -> 1 [] c = "2" -> 2 [] c = "3" -> 3
    [] c = "4" -> 4 [] c = "5" -> 5 [] c = "6" -> 6 [] c = "7" -> 7
    [] c = "8" -> 8 [] c = "9" -> 9

RECURSIVE ParseDigits(_, _)
ParseDigits(chars, acc) ==
  IF chars = <<>> \/ Head(chars) \notin DigitChars
    THEN acc
    ELSE ParseDigits(Tail(chars), acc * 10 + DigitValue(Head(chars)))

ParseInt(chars) ==
  LET neg == chars /= <<>> /\ Head(chars) = "-"
      body == IF neg THEN Tail(chars) ELSE chars
  IN IF body = <<>> \/ Head(body) \notin DigitChars
       THEN NaN
       ELSE Num((IF neg THEN -1 ELSE 1) * ParseDigits(body, 0))

(***************************************************************************)
(* Admin records the backend may return at login (types: Admin).           *)
(***************************************************************************)
NoAdmin == Null

AdminRecord(id, role, branch, assigned) ==
  [id |-> id, admin_role |-> role, branch_id |-> branch,
   assigned_user_ids |-> assigned]

BackendAdmins ==
  { AdminRecord(1, "super_admin", Null, <<>>),
    AdminRecord(2, "manager", Num(1), <<>>),
    AdminRecord(3, "trainee", Num(1), <<2, 1>>),
    AdminRecord(4, "trainee", Null, <<>>),
    AdminRecord(5, "auditor", Num(1), <<>>) }

KnownRoles == {"super_admin", "manager", "trainee"}

Token == Str("tok")
NoToken == Null

(***************************************************************************)
(* localStorage: getItem gives null for a missing key; the admin entry is  *)
(* JSON text, which may also be text that JSON.parse rejects.              *)
(***************************************************************************)
StoredMissing == Null
StoredGarbage == [t |-> "garbage"]
JSONstringify(a) == [t |-> "json", v |-> a]
JSONparses(s) == s.t = "json"
JSONparse(s) == s.v

Paths ==
  {"/login", "/dashboard", "/call-logs", "/devices", "/branches", "/users",
   "/admins", "/login-activities", "/"}

Views ==
  {"Login", "Dashboard", "CallLogs", "Devices", "Branches", "Users",
   "Admins", "LoginActivities"}

VARIABLES
  \* auth store
  admin, token, isAuthenticated,
  \* localStorage entries 'admin' and 'auth_token'
  storedAdmin, storedToken,
  \* the initAuth effect of App has run
  booted,
  \* history: the response interceptor has ended the session, and no login
  \* has succeeded since
  expired,
  \* router: the path last navigated to and the view that is rendered
  requested, route,
  \* CallLogs view
  filters, pendingFilters, search, data, lastAlert,
  \* the handler of the CallLogs view that ran last, with the URL parameters
  \* it consumed when it was the preset effect
  lastOp,
  \* Devices view
  devFilters, devData,
  \* Users view
  idFilterStaging, nameFilterStaging, idFilter, nameFilter, branchFilter,
  currentPage, perPage, usersData,
  \* Admins view: ids handed to deleteMutation.mutate, and the last toast
  deleteCalls, lastToast,
  \* LoginActivities view
  activeTab, laFilters, pagination, loading,
  \* LoginActivities view: the rows shown, the refresh flag, and the calls of
  \* fetchActivities that have not settled yet
  activities, refreshing, inFlight,
  \* history: a page of results for the current filters has arrived, and no
  \* call has failed since
  answered,
  \* CallLogs view: the exporting flag, and the export calls that have not
  \* settled yet (calls of unmounted instances of the view included)
  exporting, exportsInFlight,
  \* AudioPlayer: component state, and the muted property of the audio element
  isPlaying, currentTime, duration, volume, isMuted, audioMuted,
  \* handler invocations since the current view was mounted
  steps

authVars ==
  <<admin, token, isAuthenticated, storedAdmin, storedToken, booted, expired>>
routeVars == <<requested, route>>
callLogsVars ==
  <<filters, pendingFilters, search, data, lastAlert, lastOp>>
devicesVars == <<devFilters, devData>>
usersVars ==
  <<idFilterStaging, nameFilterStaging, idFilter, nameFilter, branchFilter,
    currentPage, perPage, usersData>>
adminsVars == <<deleteCalls, lastToast>>
loginActivitiesVars ==
  <<activeTab, laFilters, pagination, loading, activities, refreshing,
    inFlight, answered>>
exportVars == <<exporting, exportsInFlight>>
audioVars == <<isPlaying, currentTime, duration, volume, isMuted, audioMuted>>
vars ==
  <<authVars, routeVars, callLogsVars, devicesVars, usersVars, adminsVars,
    loginActivitiesVars, exportVars, audioVars, steps>>

\* admin?.admin_role
RoleOf(a) == IF a = NoAdmin THEN Undefined ELSE Str(a.admin_role)
HasRole(a, r) == a /= NoAdmin /\ a.admin_role = r
\* admin?.id
IdOf(a) == IF a = NoAdmin THEN Undefined ELSE Num(a.id)

(***************************************************************************)
(* Route guards (App).  A route element either renders a view or           *)
(* redirects to another path.                                              *)
(***************************************************************************)
\* allowedRoles of the role-protected routes
DevicesAllowedRoles == {"super_admin", "manager"}
\* variant: the branches route also lets managers in
BranchesAllowedRoles_WithManager == {"super_admin", "manager"}
BranchesAllowedRoles == {"super_admin"}
\* variant: the admins route also lets managers in
AdminsAllowedRoles_WithManager == {"super_admin", "manager"}
AdminsAllowedRoles == {"super_admin"}
LoginActivitiesAllowedRoles == {"super_admin", "manager"}

Render(view) == [kind |-> "render", view |-> view]
Redirect(path) == [kind |-> "redirect", to |-> path]

\* variant: the guard lets everyone in
ProtectedRoute_Open(child) == Render(child)

ProtectedRoute(child) ==
  IF ~isAuthenticated THEN Redirect("/login") ELSE Render(child)

RoleProtectedRoute(child, allowedRoles) ==
  IF ~isAuthenticated THEN Redirect("/login")
  ELSE IF admin /= NoAdmin /\ admin.admin_role \notin allowedRoles
    THEN Redirect("/dashboard")
    ELSE Render(child)

PublicRoute(child) ==
  IF isAuthenticated THEN Redirect("/dashboard") ELSE Render(child)

RouteElement(path) ==
  CASE path = "/login" -> PublicRoute("Login")
    [] path = "/dashboard" -> ProtectedRoute("Dashboard")
    [] path = "/call-logs" -> ProtectedRoute("CallLogs")
    [] path = "/devices" -> RoleProtectedRoute("Devices", DevicesAllowedRoles)
    [] path = "/branches" ->
         RoleProtectedRoute("Branches", BranchesAllowedRoles)
    [] path = "/users" -> ProtectedRoute("Users")
    [] path = "/admins" -> RoleProtectedRoute("Admins", AdminsAllowedRoles)
    [] path = "/login-activities" ->
         RoleProtectedRoute("LoginActivities", LoginActivitiesAllowedRoles)
    [] OTHER -> Redirect("/dashboard")

RECURSIVE Resolve(_)
Resolve(path) ==
  LET e == RouteElement(path)
  IN IF e.kind = "render" THEN e.view ELSE Resolve(e.to)

(***************************************************************************)
(* Sidebar: the navigation entries shown to the current admin.             *)
(***************************************************************************)
Unrestricted == {}

allNavItems ==
  { [to |-> "/dashboard", allowedRoles |-> Unrestricted],
    [to |-> "/call-logs", allowedRoles |-> Unrestricted],
    [to |-> "/devices", allowedRoles |-> {"super_admin", "manager"}] }

allAdminNavItems ==
  { [to |-> "/branches", allowedRoles |-> {"super_admin"}],
    [to |-> "/users", allowedRoles |-> Unrestricted],
    [to |-> "/admins", allowedRoles |-> {"super_admin"}],
    [to |-> "/login-activities", allowedRoles |-> {"super_admin", "manager"}] }

\* variant: the sidebar shows every entry to everyone
NavItemShown_All(item) == TRUE

\* the filter callback of navItems and adminNavItems
NavItemShown(item) ==
  IF item.allowedRoles /= Unrestricted /\ admin /= NoAdmin
    THEN admin.admin_role \in item.allowedRoles
    ELSE TRUE

navItems == {item \in allNavItems : NavItemShown(item)}
adminNavItems == {item \in allAdminNavItems : NavItemShown(item)}
SidebarPaths == {item.to : item \in navItems \cup adminNavItems}

\* the paths of the route table whose element renders a view for the
\* current admin
ViewPaths ==
  {"/dashboard", "/call-logs", "/devices", "/branches", "/users", "/admins",
   "/login-activities"}
EnterablePaths == {path \in ViewPaths : RouteElement(path).kind = "render"}

(***************************************************************************)
(* CallLogs view.                                                          *)
(***************************************************************************)
\* keys of CallLogFilters that the filter panel edits
PendingKeys ==
  {"user_id", "branch_id", "call_type", "number", "date_from", "date_to",
   "time_from", "time_to", "duration_min", "duration_max"}
NumericKeys == {"user_id", "branch_id", "duration_min", "duration_max"}
SortColumns == {"call_type", "call_duration", "call_timestamp"}

\* texts a control of the filter panel can deliver as e.target.value;
\* numeric controls deliver a sequence of characters
InputTexts(key) ==
  CASE key = "user_id" -> {<<>>, <<"1">>, <<"2">>, <<"3">>}
    [] key = "branch_id" -> {<<>>, <<"1">>, <<"2">>}
    [] key = "duration_min" -> {<<>>, <<"0">>, <<"1", "0">>, <<"-", "5">>}
    [] key = "duration_max" -> {<<>>, <<"1", "0">>}
    [] key = "call_type" -> {"", "incoming"}
    [] key = "number" -> {"", "555"}
    [] key = "date_from" -> {"", "2025-03-01"}
    [] key = "date_to" -> {"", "2025-03-31"}
    [] key = "time_from" -> {"", "09:00"}
    [] key = "time_to" -> {"", "17:00"}

SearchTexts == {"", "bob"}

\* the value an onChange callback of the filter panel passes on
ControlValue(key, text) ==
  IF key \in NumericKeys
    THEN IF text /= <<>> THEN ParseInt(text) ELSE Undefined
    ELSE Str(text)

\* new Date() as the preset effect may read it: local calendar date and
\* getDay()
Todays ==
  { [year |-> 2025, month |-> 3, day |-> 12, weekday |-> 3],
    [year |-> 2025, month |-> 3, day |-> 1, weekday |-> 6] }

DaysInMonth(year, month) ==
  IF month = 2
    THEN IF (year % 4 = 0 /\ year % 100 /= 0) \/ year % 400 = 0
           THEN 29 ELSE 28
    ELSE IF month \in {4, 6, 9, 11} THEN 30 ELSE 31

\* date.setDate(d) for d at most the current day of the month
SetDate(date, d) ==
  IF d >= 1 THEN [date EXCEPT !.day = d]
  ELSE LET py == IF date.month = 1 THEN date.year - 1 ELSE date.year
           pm == IF date.month = 1 THEN 12 ELSE date.month - 1
       IN [date EXCEPT !.year = py, !.month = pm,
                       !.day = DaysInMonth(py, pm) + d]

\* String(n).padStart(2, '0')
PadStart2(n) == IF n < 10 THEN "0" \o ToString(n) ELSE ToString(n)

formatDate(date) ==
  ToString(date.year) \o "-" \o PadStart2(date.month) \o "-"
    \o PadStart2(date.day)

getDateRangeForPeriod(period, today) ==
  CASE period = "daily" ->
         [date_from |-> Str(formatDate(today)),
          date_to |-> Str(formatDate(today))]
    [] period = "weekly" ->
         [date_from |->
            Str(formatDate(SetDate(today, today.day - today.weekday))),
          date_to |-> Str(formatDate(today))]
    [] period = "monthly" ->
         [date_from |-> Str(formatDate([today EXCEPT !.day = 1])),
          date_to |-> Str(formatDate(today))]
    [] OTHER -> [date_from |-> Undefined, date_to |-> Undefined]

\* the role conditions of getInitialFilters
TraineeWithUsers ==
  HasRole(admin, "trainee") /\ Len(admin.assigned_user_ids) > 0
ManagerWithBranch == HasRole(admin, "manager") /\ Truthy(admin.branch_id)

getInitialFilters ==
  LET baseFilters == [page |-> Num(1), per_page |-> Num(20)]
      withUser ==
        IF TraineeWithUsers
          THEN Spread(baseFilters,
                      [user_id |-> Num(admin.assigned_user_ids[1])])
          ELSE baseFilters
  IN IF ManagerWithBranch
       THEN Spread(withUser, [branch_id |-> admin.branch_id])
       ELSE withUser

availableUserIds ==
  IF HasRole(admin, "super_admin") THEN <<>>
  ELSE IF HasRole(admin, "trainee") THEN admin.assigned_user_ids
  ELSE <<>>

\* no handler of the CallLogs view has run since it was mounted
NoOp == [op |-> "none"]
Op(name) == [op |-> name]

\* useCallLogs(filters): no result is known yet for a new query key
NoData == Undefined
QueryResults ==
  {[last_page |-> lp, rows |-> r] : lp \in 1..MaxLastPage, r \in {0, 20}}
\* the query key is hashed as JSON, which drops keys whose value is undefined
QueryKeyHash(f) == [k \in {j \in DOMAIN f : f[j] /= Undefined} |-> f[k]]
DataFor(oldFilters, newFilters, oldData) ==
  IF QueryKeyHash(newFilters) = QueryKeyHash(oldFilters)
    THEN oldData ELSE NoData

(***************************************************************************)
(* Devices and Users views: initial state and the query handed to the API. *)
(***************************************************************************)
DigitChar(d) ==
  CASE d = 0 -> "0" [] d = 1 -> "1" [] d = 2 -> "2" [] d = 3 -> "3"
    [] d = 4 -> "4" [] d = 5 -> "5" [] d = 6 -> "6" [] d = 7 -> "7"
    [] d = 8 -> "8" [] d = 9 -> "9"

\* n.toString() of a non-negative integer, as a sequence of characters
RECURSIVE NumberToString(_)
NumberToString(n) ==
  IF n < 10 THEN <<DigitChar(n)>>
  ELSE Append(NumberToString(n \div 10), DigitChar(n % 10))

DevicesInitialFilters ==
  Spread([page |-> Num(1), per_page |-> Num(20)],
         IF ManagerWithBranch
           THEN [branch_id |-> admin.branch_id]
           ELSE EmptyObject)

AllOption == <<"a", "l", "l">>
DeviceBranchOptions == {AllOption, <<"1">>, <<"2">>}
DeviceUserOptions == {AllOption, <<"1">>, <<"2">>}
DeviceStatusOptions == {"all", "online", "offline"}
DevicePermissionOptions == {"all", "all_granted", "some_denied", "all_denied"}
DeviceResults == {[last_page |-> lp] : lp \in 1..MaxLastPage}

initialBranchFilter ==
  IF HasRole(admin, "manager") \/ HasRole(admin, "trainee")
    THEN IF Truthy(admin.branch_id)
           THEN NumberToString(admin.branch_id.v) ELSE <<>>
    ELSE <<>>

\* variant: every admin may edit users
canEdit_AnyAdmin == admin /= NoAdmin
\* Users: only super_admin can create/edit/delete users
canEdit == HasRole(admin, "super_admin")
\* Admins: only super_admin can manage other admins
canEditAdmins == HasRole(admin, "super_admin")
canChangeBranchFilter == HasRole(admin, "super_admin")

\* x ?? undefined
NullishToUndefined(x) == IF x = Null \/ x = Undefined THEN Undefined ELSE x

effectiveBranchFilter ==
  IF HasRole(admin, "manager") \/ HasRole(admin, "trainee")
    THEN NullishToUndefined(admin.branch_id)
    ELSE IF branchFilter /= <<>> THEN ParseInt(branchFilter) ELSE Undefined

\* the argument of apiService.getUsers in the users query
UsersQuery ==
  [user_id |-> IF idFilter /= <<>> THEN ParseInt(idFilter) ELSE Undefined,
   name |-> OrUndefined(Str(nameFilter)),
   branch_id |-> effectiveBranchFilter,
   page |-> Num(currentPage),
   per_page |-> Num(perPage)]

UserIdTexts == {<<>>, <<"7">>}
UserNameTexts == {"", "ann"}
UserBranchOptions == {<<>>, <<"1">>, <<"2">>}
PerPageOptions == {<<"1", "0">>, <<"2", "0">>, <<"5", "0">>, <<"1", "0", "0">>}
UsersResults ==
  {[last_page |-> lp, total |-> t] : lp \in 1..MaxLastPage, t \in {0, 50}}

Min(a, b) == IF a <= b THEN a ELSE b

\* variant: the window is centred on the current page up to the last page
pageNumbers_NoTailCase ==
  IF usersData = NoData \/ usersData.last_page = 0 THEN <<>>
  ELSE LET last == usersData.last_page
           pageCount == Min(5, last)
       IN [i \in 1..pageCount |->
             IF last <= 5 THEN (i - 1) + 1
             ELSE IF currentPage <= 3 THEN (i - 1) + 1
             ELSE currentPage - 2 + (i - 1)]

\* the page-number buttons of the Users view
pageNumbers ==
  IF usersData = NoData \/ usersData.last_page = 0 THEN <<>>
  ELSE LET last == usersData.last_page
           pageCount == Min(5, last)
       IN [i \in 1..pageCount |->
             IF last <= 5 THEN (i - 1) + 1
             ELSE IF currentPage <= 3 THEN (i - 1) + 1
             ELSE IF currentPage >= last - 2 THEN last - 4 + (i - 1)
             ELSE currentPage - 2 + (i - 1)]

(***************************************************************************)
(* LoginActivities view: initial state and inputs.                         *)
(***************************************************************************)
LoginActivitiesInitialFilters ==
  [page |-> Num(1), per_page |-> Num(15), user_type |-> Str("user")]

\* the pagination state before the first response
InitialPagination == [current_page |-> 1, last_page |-> 1]

TabTypes == {"user", "admin"}
LoginActivityFilterKeys == {"search", "status", "start_date"}
LoginActivityTexts(key) ==
  CASE key = "search" -> {"", "bob"}
    [] key = "status" -> {"", "failed"}
    [] key = "start_date" -> {"", "2025-03-01"}

\* the value the onChange callback of a filter control passes on
LoginActivityControlValue(key, text) ==
  IF key = "search" THEN Str(text) ELSE OrUndefined(Str(text))

\* the dependencies of the fetch effect
FetchDeps(f) ==
  [k \in {"page", "per_page", "user_type", "status", "start_date",
           "end_date", "search"} |-> Get(f, k)]

\* a call of fetchActivities that has not settled: the filters it sent and
\* its showRefreshing argument
Fetch(query, showRefreshing) ==
  [query |-> query, showRefreshing |-> showRefreshing]
\* the activities state: no rows, or the rows the backend returned for a query
NoRows == [rows |-> "none"]
RowsFor(query) == [rows |-> "of", query |-> query]

\* CallLogs view: the exporting state
NoExport == Null
ExportKinds == {"excel", "pdf"}

\* AudioPlayer: the positions of the volume slider (min 0, max 1, step 0.1),
\* in tenths
VolumeSteps == 0..10
FullVolume == 10

(***************************************************************************)
(* Actions offered by the views, as the render functions compute them.     *)
(***************************************************************************)
\* variant: every admin may manage call logs
canManageCallLogs_AnyAdmin == admin /= NoAdmin
\* CallLogs: only super_admin can download recordings and delete call logs
canManageCallLogs == HasRole(admin, "super_admin")
CallLogDeleteOffered == route = "CallLogs" /\ canManageCallLogs
RecordingDownloadOffered == route = "CallLogs" /\ canManageCallLogs
\* the Excel and PDF buttons of the search bar
ExcelExportOffered == route = "CallLogs"
PdfExportOffered == route = "CallLogs"

\* Devices: only super_admin can delete/logout devices
canManageDevices == HasRole(admin, "super_admin")

\* Branches: Add Branch, and Edit and Delete on every card
BranchCreateOffered == route = "Branches"
BranchEditOffered == route = "Branches"
BranchDeleteOffered == route = "Branches"

\* Users: Add User, and Edit and Delete on every row
UserCreateOffered == route = "Users" /\ canEdit
UserEditOffered == route = "Users" /\ canEdit
UserDeleteOffered == route = "Users" /\ canEdit

\* Admins: ids of the admins the list shows
AdminIds == {a.id : a \in BackendAdmins}
AdminDeleteOffered(adminItemId) ==
  route = "Admins" /\ canEditAdmins /\ Num(adminItemId) /= IdOf(admin)

(***************************************************************************)
(* Initial state: the auth store as created, localStorage with whatever an *)
(* earlier session left, the first render (unauthenticated) on /login.     *)
(***************************************************************************)
Init ==
  /\ admin = NoAdmin
  /\ token = NoToken
  /\ isAuthenticated = FALSE
  /\ storedAdmin \in {StoredMissing, StoredGarbage}
                       \cup {JSONstringify(a) : a \in BackendAdmins \cup {NoAdmin}}
  /\ storedToken \in {StoredMissing, Token}
  /\ booted = FALSE
  /\ expired = FALSE
  /\ requested = "/login"
  /\ route = "Login"
  /\ filters = EmptyObject
  /\ pendingFilters = EmptyObject
  /\ search = ""
  /\ data = NoData
  /\ lastAlert = "none"
  /\ lastOp = NoOp
  /\ devFilters = EmptyObject
  /\ devData = NoData
  /\ idFilterStaging = <<>>
  /\ nameFilterStaging = ""
  /\ idFilter = <<>>
  /\ nameFilter = ""
  /\ branchFilter = <<>>
  /\ currentPage = 1
  /\ perPage = 20
  /\ usersData = NoData
  /\ deleteCalls = {}
  /\ lastToast = "none"
  /\ activeTab = "user"
  /\ laFilters = EmptyObject
  /\ pagination = InitialPagination
  /\ loading = FALSE
  /\ activities = NoRows
  /\ refreshing = FALSE
  /\ inFlight = <<>>
  /\ answered = FALSE
  /\ exporting = NoExport
  /\ exportsInFlight = 0
  /\ isPlaying = FALSE
  /\ currentTime = 0
  /\ duration = 0
  /\ volume = FullVolume
  /\ isMuted = FALSE
  /\ audioMuted = FALSE
  /\ steps = 0

\* the state of every view after `view` has been mounted (the other views
\* are unmounted and hold no state)
MountView(view) ==
  /\ filters' = IF view = "CallLogs" THEN getInitialFilters ELSE EmptyObject
  /\ pendingFilters' = EmptyObject
  /\ search' = ""
  /\ data' = NoData
  /\ lastAlert' = "none"
  /\ lastOp' = NoOp
  /\ devFilters' = IF view = "Devices" THEN DevicesInitialFilters
                   ELSE EmptyObject
  /\ devData' = NoData
  /\ idFilterStaging' = <<>>
  /\ nameFilterStaging' = ""
  /\ idFilter' = <<>>
  /\ nameFilter' = ""
  /\ branchFilter' = IF view = "Users" THEN initialBranchFilter ELSE <<>>
  /\ currentPage' = 1
  /\ perPage' = 20
  /\ usersData' = NoData
  /\ deleteCalls' = {}
  /\ lastToast' = "none"
  /\ activeTab' = "user"
  /\ laFilters' = IF view = "LoginActivities" THEN LoginActivitiesInitialFilters
                  ELSE EmptyObject
  /\ pagination' = InitialPagination
  /\ loading' = (view = "LoginActivities")
  /\ activities' = NoRows
  /\ refreshing' = FALSE
  \* the fetch effect of the first render
  /\ inFlight' = IF view = "LoginActivities"
                   THEN <<Fetch(FetchDeps(LoginActivitiesInitialFilters),
                                FALSE)>>
                   ELSE <<>>
  /\ answered' = FALSE
  /\ exporting' = NoExport
  /\ isPlaying' = FALSE
  /\ currentTime' = 0
  /\ duration' = 0
  /\ volume' = FullVolume
  /\ isMuted' = FALSE
  /\ audioMuted' = FALSE
  /\ steps' = 0

(***************************************************************************)
(* Auth store and session.                                                 *)
(***************************************************************************)
\* App's effect on load: initAuth(), after which the router re-renders
initAuth ==
  /\ ~booted
  /\ booted' = TRUE
  /\ IF storedAdmin /= StoredMissing /\ storedToken /= StoredMissing
       THEN IF JSONparses(storedAdmin)
              THEN /\ admin' = JSONparse(storedAdmin)
                   /\ token' = storedToken
                   /\ isAuthenticated' = TRUE
                   /\ UNCHANGED <<storedAdmin, storedToken>>
              ELSE /\ storedAdmin' = StoredMissing
                   /\ storedToken' = StoredMissing
                   /\ UNCHANGED <<admin, token, isAuthenticated>>
       ELSE UNCHANGED <<admin, token, isAuthenticated, storedAdmin,
                        storedToken>>
  /\ requested' = IF isAuthenticated' THEN "/dashboard" ELSE "/login"
  /\ route' = IF isAuthenticated' THEN "Dashboard" ELSE "Login"
  /\ UNCHANGED <<callLogsVars, devicesVars, usersVars, adminsVars,
                 loginActivitiesVars, exportVars, audioVars, steps, expired>>

\* Login.handleSubmit with a successful response: setAuth, then
\* navigate('/dashboard')
setAuth(a, tok) ==
  /\ storedAdmin' = JSONstringify(a)
  /\ storedToken' = tok
  /\ admin' = a
  /\ token' = tok
  /\ isAuthenticated' = TRUE

Login ==
  /\ booted
  /\ route = "Login"
  /\ \E a \in BackendAdmins \cup {NoAdmin} : setAuth(a, Token)
  /\ requested' = "/dashboard"
  /\ route' = "Dashboard"
  /\ MountView("Dashboard")
  /\ expired' = FALSE
  /\ UNCHANGED <<booted, exportsInFlight>>

\* Sidebar.handleLogout: logout(), then the route guard sends to /login
logout ==
  /\ storedAdmin' = StoredMissing
  /\ storedToken' = StoredMissing
  /\ admin' = NoAdmin
  /\ token' = NoToken
  /\ isAuthenticated' = FALSE

Logout ==
  /\ booted
  /\ route /= "Login"
  /\ logout
  /\ requested' = "/login"
  /\ route' = "Login"
  /\ MountView("Login")
  /\ UNCHANGED <<booted, expired, exportsInFlight>>

\* the statuses on which the response interceptor ends the session
UnauthorizedStatuses == {401, 403}

\* variant: the interceptor removes the token and leaves the stored admin
unauthorizedResponse_TokenOnly ==
  /\ booted
  /\ storedToken' = StoredMissing
  /\ UNCHANGED storedAdmin
  /\ admin' = NoAdmin
  /\ token' = NoToken
  /\ isAuthenticated' = FALSE
  /\ booted' = FALSE
  /\ expired' = TRUE
  /\ requested' = "/login"
  /\ route' = "Login"
  /\ MountView("Login")
  /\ exportsInFlight' = 0

\* ApiService response interceptor on an error response with one of these
\* statuses: both localStorage entries are removed and window.location.href
\* is set to '/login', which loads the page anew: the store is created
\* again, pending requests are dropped, and App's effect runs initAuth next
unauthorizedResponse ==
  /\ booted
  /\ \E status \in UnauthorizedStatuses :
       /\ storedToken' = StoredMissing
       /\ storedAdmin' = StoredMissing
  /\ admin' = NoAdmin
  /\ token' = NoToken
  /\ isAuthenticated' = FALSE
  /\ booted' = FALSE
  /\ expired' = TRUE
  /\ requested' = "/login"
  /\ route' = "Login"
  /\ MountView("Login")
  /\ exportsInFlight' = 0

\* client-side navigation (a link, navigate(), or a history entry)
Navigate ==
  /\ booted
  /\ \E path \in Paths :
       /\ requested' = path
       /\ route' = Resolve(path)
       /\ IF Resolve(path) = route
            THEN UNCHANGED <<callLogsVars, devicesVars, usersVars,
                             adminsVars, loginActivitiesVars, exportVars,
                             audioVars, steps>>
            ELSE /\ MountView(Resolve(path))
                 \* the export calls of an unmounted view go on
                 /\ UNCHANGED exportsInFlight
  /\ UNCHANGED authVars

(***************************************************************************)
(* CallLogs view: handlers.                                                *)
(***************************************************************************)
Mounted(view) == booted /\ route = view /\ steps < MaxSteps

OtherThanCallLogs ==
  <<authVars, routeVars, devicesVars, usersVars, adminsVars,
    loginActivitiesVars, exportVars, audioVars>>

\* the search box: onChange -> setSearch
setSearch ==
  /\ Mounted("CallLogs")
  /\ \E text \in SearchTexts : search' = text
  /\ lastAlert' = "none"
  /\ lastOp' = Op("setSearch")
  /\ steps' = steps + 1
  /\ UNCHANGED <<filters, pendingFilters, data, OtherThanCallLogs>>

handleSearch ==
  /\ Mounted("CallLogs")
  /\ filters' = Spread(filters, [search |-> Str(search), page |-> Num(1)])
  /\ data' = DataFor(filters, filters', data)
  /\ lastAlert' = "none"
  /\ lastOp' = Op("handleSearch")
  /\ steps' = steps + 1
  /\ UNCHANGED <<pendingFilters, search, OtherThanCallLogs>>

handleFilterChange(key, value) ==
  /\ pendingFilters' = Spread(pendingFilters, (key :> OrUndefined(value)))
  /\ lastAlert' = "none"
  /\ lastOp' = Op("handleFilterChange")
  /\ UNCHANGED <<filters, search, data>>

\* an edit in a control of the filter panel
stageFilterEdit ==
  /\ Mounted("CallLogs")
  /\ \E key \in PendingKeys : \E text \in InputTexts(key) :
       handleFilterChange(key, ControlValue(key, text))
  /\ steps' = steps + 1
  /\ UNCHANGED OtherThanCallLogs

\* variant: the validation looks at time_from only
TimeWithoutDate_FromOnly(p) ==
  /\ Truthy(Get(p, "time_from"))
  /\ ~Truthy(Get(p, "date_from"))
  /\ ~Truthy(Get(p, "date_to"))

\* variant: no validation of time filters
TimeWithoutDate_Never(p) == FALSE

\* applyFilters, validation: time filters need a date
TimeWithoutDate(p) ==
  /\ Truthy(Get(p, "time_from")) \/ Truthy(Get(p, "time_to"))
  /\ ~Truthy(Get(p, "date_from"))
  /\ ~Truthy(Get(p, "date_to"))

\* applyFilters, trainee restriction
TraineeRestricted == HasRole(admin, "trainee") /\ Len(availableUserIds) > 0

\* variant: the assigned-user check is missing
UserNotAssigned_Never(p) == FALSE

UserNotAssigned(p) ==
  /\ TraineeRestricted
  /\ Truthy(Get(p, "user_id"))
  /\ ~Includes(availableUserIds, Get(p, "user_id"))

WithDefaultUser(p) ==
  IF TraineeRestricted /\ ~Truthy(Get(p, "user_id"))
    THEN Spread(p, [user_id |-> Num(availableUserIds[1])])
    ELSE p

\* variant: the staged branch is left as it is
WithManagerBranch_Unforced(p) == p

\* applyFilters, manager restriction
WithManagerBranch(p) ==
  IF HasRole(admin, "manager") /\ Truthy(admin.branch_id)
    THEN Spread(p, [branch_id |-> admin.branch_id])
    ELSE p

\* pendingFilters is updated in place before it is spread over filters
\* one call of applyFilters
applyFiltersCall ==
  /\ IF TimeWithoutDate(pendingFilters)
       THEN /\ lastAlert' = "Please select a date when using time filters"
            /\ UNCHANGED <<filters, pendingFilters, data>>
       ELSE IF UserNotAssigned(pendingFilters)
         THEN /\ lastAlert' =
                   "You can only view call logs for your assigned users"
              /\ UNCHANGED <<filters, pendingFilters, data>>
         ELSE /\ pendingFilters' =
                   WithManagerBranch(WithDefaultUser(pendingFilters))
              /\ filters' =
                   Spread(Spread(filters, pendingFilters'),
                          [page |-> Num(1)])
              /\ data' = DataFor(filters, filters', data)
              /\ lastAlert' = "none"
  /\ lastOp' = Op("applyFilters")
  /\ UNCHANGED <<search, OtherThanCallLogs>>

applyFilters ==
  /\ Mounted("CallLogs")
  /\ applyFiltersCall
  /\ steps' = steps + 1

\* variant: Clear All drops the role's constraint as well
clearFilters_BaseOnly ==
  /\ Mounted("CallLogs")
  /\ filters' = [page |-> Num(1), per_page |-> Num(20)]
  /\ pendingFilters' = EmptyObject
  /\ search' = ""
  /\ data' = DataFor(filters, filters', data)
  /\ lastAlert' = "none"
  /\ lastOp' = Op("clearFilters")
  /\ steps' = steps + 1
  /\ UNCHANGED OtherThanCallLogs

\* one call of clearFilters
clearFiltersCall ==
  /\ filters' = getInitialFilters
  /\ pendingFilters' = EmptyObject
  /\ search' = ""
  /\ data' = DataFor(filters, filters', data)
  /\ lastAlert' = "none"
  /\ lastOp' = Op("clearFilters")
  /\ UNCHANGED OtherThanCallLogs

clearFilters ==
  /\ Mounted("CallLogs")
  /\ clearFiltersCall
  /\ steps' = steps + 1

\* variant: sorting keeps the current page
handleSort_KeepPage(column) ==
  LET newSortOrder ==
        IF Get(filters, "sort_by") = Str(column)
          THEN IF Get(filters, "sort_order") = Str("asc")
                 THEN "desc" ELSE "asc"
          ELSE "asc"
  IN /\ filters' = Spread(filters, [sort_by |-> Str(column),
                                    sort_order |-> Str(newSortOrder)])
     /\ data' = DataFor(filters, filters', data)
     /\ lastAlert' = "none"
     /\ lastOp' = Op("handleSort")
     /\ UNCHANGED <<pendingFilters, search>>

\* variant: sorting never toggles to descending
handleSort_AlwaysAsc(column) ==
  /\ filters' = Spread(filters, [sort_by |-> Str(column),
                                 sort_order |-> Str("asc"),
                                 page |-> Num(1)])
  /\ data' = DataFor(filters, filters', data)
  /\ lastAlert' = "none"
  /\ lastOp' = Op("handleSort")
  /\ UNCHANGED <<pendingFilters, search>>

handleSort(column) ==
  LET newSortOrder ==
        IF Get(filters, "sort_by") = Str(column)
          THEN IF Get(filters, "sort_order") = Str("asc")
                 THEN "desc" ELSE "asc"
          ELSE "asc"
  IN /\ filters' = Spread(filters, [sort_by |-> Str(column),
                                    sort_order |-> Str(newSortOrder),
                                    page |-> Num(1)])
     /\ data' = DataFor(filters, filters', data)
     /\ lastAlert' = "none"
     /\ lastOp' = Op("handleSort")
     /\ UNCHANGED <<pendingFilters, search>>

sortColumn ==
  /\ Mounted("CallLogs")
  /\ \E column \in SortColumns : handleSort(column)
  /\ steps' = steps + 1
  /\ UNCHANGED OtherThanCallLogs

\* the pager is rendered under the table when there are rows and more than
\* one page
PaginationShown == data /= NoData /\ data.rows > 0 /\ data.last_page > 1

\* filters.page || 1
PageOrOne == IF Truthy(Get(filters, "page")) THEN filters["page"].v ELSE 1

\* variant: Previous is never disabled
PreviousDisabled_Never == FALSE
\* disabled={filters.page === 1}
PreviousDisabled == Get(filters, "page") = Num(1)

previousPage ==
  /\ Mounted("CallLogs")
  /\ PaginationShown
  /\ ~PreviousDisabled
  /\ filters' = Spread(filters, [page |-> Num(PageOrOne - 1)])
  /\ data' = DataFor(filters, filters', data)
  /\ lastAlert' = "none"
  /\ lastOp' = Op("previousPage")
  /\ steps' = steps + 1
  /\ UNCHANGED <<pendingFilters, search, OtherThanCallLogs>>

\* variant: Next applies the staged edits along with the page
nextPage_MergePending ==
  /\ Mounted("CallLogs")
  /\ PaginationShown
  /\ Get(filters, "page") /= Num(data.last_page)
  /\ filters' = Spread(Spread(filters, pendingFilters),
                       [page |-> Num(PageOrOne + 1)])
  /\ data' = DataFor(filters, filters', data)
  /\ lastAlert' = "none"
  /\ lastOp' = Op("nextPage")
  /\ steps' = steps + 1
  /\ UNCHANGED <<pendingFilters, search, OtherThanCallLogs>>

nextPage ==
  /\ Mounted("CallLogs")
  /\ PaginationShown
  /\ Get(filters, "page") /= Num(data.last_page)
  /\ filters' = Spread(filters, [page |-> Num(PageOrOne + 1)])
  /\ data' = DataFor(filters, filters', data)
  /\ lastAlert' = "none"
  /\ lastOp' = Op("nextPage")
  /\ steps' = steps + 1
  /\ UNCHANGED <<pendingFilters, search, OtherThanCallLogs>>

\* searchParams.get: null when the parameter is missing
CallTypeParams == {Null, Str("incoming")}
PeriodParams ==
  {Null, Str("daily"), Str("weekly"), Str("monthly"), Str("yearly")}

\* variant: the preset is merged over the applied filters
PresetFilters_OverApplied(callType, period, today) ==
  LET withType ==
        IF Truthy(callType)
          THEN Spread(filters, [call_type |-> callType])
          ELSE filters
      dateRange == getDateRangeForPeriod(period.v, today)
  IN IF Truthy(period)
       THEN Spread(withType, [date_from |-> dateRange.date_from,
                              date_to |-> dateRange.date_to])
       ELSE withType

\* variant: a preset for the call type already applied takes it off again
PresetFilters_Toggling(callType, period, today) ==
  LET withType ==
        IF Truthy(callType) /\ Get(filters, "call_type") /= callType
          THEN Spread(getInitialFilters, [call_type |-> callType])
          ELSE getInitialFilters
      dateRange == getDateRangeForPeriod(period.v, today)
  IN IF Truthy(period)
       THEN Spread(withType, [date_from |-> dateRange.date_from,
                              date_to |-> dateRange.date_to])
       ELSE withType

\* newFilters of the preset effect
PresetFilters(callType, period, today) ==
  LET withType ==
        IF Truthy(callType)
          THEN Spread(getInitialFilters, [call_type |-> callType])
          ELSE getInitialFilters
      dateRange == getDateRangeForPeriod(period.v, today)
  IN IF Truthy(period)
       THEN Spread(withType, [date_from |-> dateRange.date_from,
                              date_to |-> dateRange.date_to])
       ELSE withType

\* the effect on [searchParams]: a deep link with call_type and/or period
urlPresetFor(callType, period, today) ==
  /\ Truthy(callType) \/ Truthy(period)
  /\ LET newFilters == PresetFilters(callType, period, today)
     IN /\ filters' = newFilters
        /\ pendingFilters' =
             [call_type |-> Get(newFilters, "call_type"),
              date_from |-> Get(newFilters, "date_from"),
              date_to |-> Get(newFilters, "date_to")]
  /\ lastOp' =
       [op |-> "urlPreset", callType |-> callType, period |-> period,
        today |-> today,
        repeated |-> /\ lastOp.op = "urlPreset"
                     /\ lastOp.callType = callType
                     /\ lastOp.period = period
                     /\ lastOp.today = today]
  /\ data' = DataFor(filters, filters', data)
  /\ lastAlert' = "none"
  /\ UNCHANGED <<search, OtherThanCallLogs>>

urlPreset ==
  /\ Mounted("CallLogs")
  /\ \E callType \in CallTypeParams, period \in PeriodParams,
        today \in Todays :
       urlPresetFor(callType, period, today)
  /\ steps' = steps + 1

\* the response of the pending call-logs query arrives
callLogsResult ==
  /\ booted
  /\ route = "CallLogs"
  /\ data = NoData
  /\ \E result \in QueryResults : data' = result
  /\ UNCHANGED <<filters, pendingFilters, search, lastAlert, lastOp,
                 steps, OtherThanCallLogs>>

\* the object handed to apiService.getCallLogs
CallLogsQuery == filters

(***************************************************************************)
(* Devices view: the filter selects and the pager.                         *)
(***************************************************************************)
OtherThanDevices ==
  <<authVars, routeVars, callLogsVars, usersVars, adminsVars,
    loginActivitiesVars, exportVars, audioVars>>

\* the value a select of the Devices view stores for an option
DeviceOptionNumber(option) ==
  IF option = AllOption THEN Undefined ELSE ParseInt(option)
DeviceOptionString(option) ==
  IF option = "all" THEN Undefined ELSE Str(option)

devicesSetFilter(change) ==
  /\ devFilters' = Spread(Spread(devFilters, change), [page |-> Num(1)])
  /\ devData' = DataFor(devFilters, devFilters', devData)

devicesStatusChange ==
  /\ Mounted("Devices")
  /\ \E option \in DeviceStatusOptions :
       devicesSetFilter([status |-> DeviceOptionString(option)])
  /\ steps' = steps + 1
  /\ UNCHANGED OtherThanDevices

\* the Branch select is rendered only for super_admin
devicesBranchChange ==
  /\ Mounted("Devices")
  /\ HasRole(admin, "super_admin")
  /\ \E option \in DeviceBranchOptions :
       devicesSetFilter([branch_id |-> DeviceOptionNumber(option)])
  /\ steps' = steps + 1
  /\ UNCHANGED OtherThanDevices

\* the User select is rendered only for super_admin
devicesUserChange ==
  /\ Mounted("Devices")
  /\ HasRole(admin, "super_admin")
  /\ \E option \in DeviceUserOptions :
       devicesSetFilter([user_id |-> DeviceOptionNumber(option)])
  /\ steps' = steps + 1
  /\ UNCHANGED OtherThanDevices

devicesPermissionChange ==
  /\ Mounted("Devices")
  /\ \E option \in DevicePermissionOptions :
       devicesSetFilter([permission_status |-> DeviceOptionString(option)])
  /\ steps' = steps + 1
  /\ UNCHANGED OtherThanDevices

DevicesPaginationShown == devData /= NoData /\ devData.last_page > 1

devicesPreviousPage ==
  /\ Mounted("Devices")
  /\ DevicesPaginationShown
  /\ devFilters["page"] /= Num(1)
  /\ devFilters' = Spread(devFilters, [page |-> Num(devFilters["page"].v - 1)])
  /\ devData' = DataFor(devFilters, devFilters', devData)
  /\ steps' = steps + 1
  /\ UNCHANGED OtherThanDevices

devicesNextPage ==
  /\ Mounted("Devices")
  /\ DevicesPaginationShown
  /\ devFilters["page"] /= Num(devData.last_page)
  /\ devFilters' = Spread(devFilters, [page |-> Num(devFilters["page"].v + 1)])
  /\ devData' = DataFor(devFilters, devFilters', devData)
  /\ steps' = steps + 1
  /\ UNCHANGED OtherThanDevices

\* the response of the pending devices query arrives
devicesResult ==
  /\ booted
  /\ route = "Devices"
  /\ devData = NoData
  /\ \E result \in DeviceResults : devData' = result
  /\ UNCHANGED <<devFilters, steps, OtherThanDevices>>

\* the object handed to apiService.getDevices
DevicesQuery == devFilters

(***************************************************************************)
(* Users view: staged id/name filters, branch select, pager.               *)
(***************************************************************************)
OtherThanUsers ==
  <<authVars, routeVars, callLogsVars, devicesVars, adminsVars,
    loginActivitiesVars, exportVars, audioVars>>

\* the query key: a change of it starts a query without a known result
UsersQueryKey == <<idFilter, nameFilter, branchFilter, currentPage, perPage>>
UsersDataAfter ==
  usersData' = IF UsersQueryKey' = UsersQueryKey THEN usersData ELSE NoData

usersStageId ==
  /\ Mounted("Users")
  /\ \E text \in UserIdTexts : idFilterStaging' = text
  /\ steps' = steps + 1
  /\ UNCHANGED <<nameFilterStaging, idFilter, nameFilter, branchFilter,
                 currentPage, perPage, usersData, OtherThanUsers>>

usersStageName ==
  /\ Mounted("Users")
  /\ \E text \in UserNameTexts : nameFilterStaging' = text
  /\ steps' = steps + 1
  /\ UNCHANGED <<idFilterStaging, idFilter, nameFilter, branchFilter,
                 currentPage, perPage, usersData, OtherThanUsers>>

\* the branch select is disabled unless canChangeBranchFilter
usersBranchChange ==
  /\ Mounted("Users")
  /\ canChangeBranchFilter
  /\ \E option \in UserBranchOptions : branchFilter' = option
  /\ UNCHANGED <<idFilterStaging, nameFilterStaging, idFilter, nameFilter,
                 currentPage, perPage>>
  /\ UsersDataAfter
  /\ steps' = steps + 1
  /\ UNCHANGED OtherThanUsers

usersHandleSearch ==
  /\ Mounted("Users")
  /\ idFilter' = idFilterStaging
  /\ nameFilter' = nameFilterStaging
  /\ currentPage' = 1
  /\ UNCHANGED <<idFilterStaging, nameFilterStaging, branchFilter, perPage>>
  /\ UsersDataAfter
  /\ steps' = steps + 1
  /\ UNCHANGED OtherThanUsers

usersHandleClearFilters ==
  /\ Mounted("Users")
  /\ idFilterStaging' = <<>>
  /\ nameFilterStaging' = ""
  /\ idFilter' = <<>>
  /\ nameFilter' = ""
  /\ currentPage' = 1
  /\ UNCHANGED <<branchFilter, perPage>>
  /\ UsersDataAfter
  /\ steps' = steps + 1
  /\ UNCHANGED OtherThanUsers

UsersPaginationShown == usersData /= NoData /\ usersData.total > 0

handlePageChange(page) ==
  /\ currentPage' = page
  /\ UNCHANGED <<idFilterStaging, nameFilterStaging, idFilter, nameFilter,
                 branchFilter, perPage>>
  /\ UsersDataAfter

\* Previous, a page-number button, or Next
usersPageClick ==
  /\ Mounted("Users")
  /\ UsersPaginationShown
  /\ \/ currentPage /= 1 /\ handlePageChange(currentPage - 1)
     \/ \E i \in DOMAIN pageNumbers : handlePageChange(pageNumbers[i])
     \/ currentPage /= usersData.last_page /\ handlePageChange(currentPage + 1)
  /\ steps' = steps + 1
  /\ UNCHANGED OtherThanUsers

usersPerPageChange ==
  /\ Mounted("Users")
  /\ UsersPaginationShown
  /\ \E option \in PerPageOptions : perPage' = ParseInt(option).v
  /\ currentPage' = 1
  /\ UNCHANGED <<idFilterStaging, nameFilterStaging, idFilter, nameFilter,
                 branchFilter>>
  /\ UsersDataAfter
  /\ steps' = steps + 1
  /\ UNCHANGED OtherThanUsers

\* the response of the pending users query arrives
usersResult ==
  /\ booted
  /\ route = "Users"
  /\ usersData = NoData
  /\ \E result \in UsersResults : usersData' = result
  /\ UNCHANGED <<idFilterStaging, nameFilterStaging, idFilter, nameFilter,
                 branchFilter, currentPage, perPage, steps, OtherThanUsers>>

(***************************************************************************)
(* Admins view: handleDelete.                                              *)
(***************************************************************************)
OtherThanAdmins ==
  <<authVars, routeVars, callLogsVars, devicesVars, usersVars,
    loginActivitiesVars, exportVars, audioVars>>

\* variant: no check against the acting admin's own id
handleDelete_NoSelfCheck(id, confirmed) ==
  IF confirmed
    THEN /\ deleteCalls' = deleteCalls \cup {id}
         /\ lastToast' = "none"
    ELSE /\ lastToast' = "none"
         /\ UNCHANGED deleteCalls

\* confirmed: the answer to window.confirm
handleDelete(id, confirmed) ==
  IF IdOf(admin) = Num(id)
    THEN /\ lastToast' = "You cannot delete your own account"
         /\ UNCHANGED deleteCalls
    ELSE IF confirmed
      THEN /\ deleteCalls' = deleteCalls \cup {id}
           /\ lastToast' = "none"
      ELSE /\ lastToast' = "none"
           /\ UNCHANGED deleteCalls

adminsDelete ==
  /\ Mounted("Admins")
  /\ \E id \in AdminIds, confirmed \in BOOLEAN : handleDelete(id, confirmed)
  /\ steps' = steps + 1
  /\ UNCHANGED OtherThanAdmins

(***************************************************************************)
(* LoginActivities view: tabs, filter controls and the pager.  While       *)
(* loading, the view renders only the loading indicator.                   *)
(***************************************************************************)
OtherThanLoginActivities ==
  <<authVars, routeVars, callLogsVars, devicesVars, usersVars, adminsVars,
    exportVars, audioVars>>

\* the fetch effect runs when a dependency has changed: fetchActivities()
\* sets loading and sends the new filters
FetchAfter ==
  LET changed == FetchDeps(laFilters') /= FetchDeps(laFilters)
  IN /\ loading' = (loading \/ changed)
     /\ inFlight' = IF changed
                      THEN Append(inFlight, Fetch(FetchDeps(laFilters'), FALSE))
                      ELSE inFlight
     /\ answered' = (answered /\ ~changed)
     /\ UNCHANGED <<activities, refreshing>>

handleTabChange(tab) ==
  /\ activeTab' = tab
  /\ laFilters' = Spread(laFilters, [user_type |-> Str(tab), page |-> Num(1)])
  /\ FetchAfter
  /\ UNCHANGED pagination

laTabChange ==
  /\ Mounted("LoginActivities")
  /\ ~loading
  /\ \E tab \in TabTypes : handleTabChange(tab)
  /\ steps' = steps + 1
  /\ UNCHANGED OtherThanLoginActivities

laHandleFilterChange(key, value) ==
  /\ laFilters' = Spread(Spread(laFilters, (key :> value)), [page |-> Num(1)])
  /\ FetchAfter
  /\ UNCHANGED <<activeTab, pagination>>

laFilterChange ==
  /\ Mounted("LoginActivities")
  /\ ~loading
  /\ \E key \in LoginActivityFilterKeys : \E text \in LoginActivityTexts(key) :
       laHandleFilterChange(key, LoginActivityControlValue(key, text))
  /\ steps' = steps + 1
  /\ UNCHANGED OtherThanLoginActivities

laHandlePageChange(page) ==
  /\ laFilters' = Spread(laFilters, [page |-> Num(page)])
  /\ FetchAfter
  /\ UNCHANGED <<activeTab, pagination>>

\* the page buttons the pager renders
LoginActivityPageButtons ==
  {page \in 1..pagination.last_page :
     \/ page = 1
     \/ page = pagination.last_page
     \/ page - pagination.current_page \in -2..2}

\* Previous, a page-number button, or Next
laPageClick ==
  /\ Mounted("LoginActivities")
  /\ ~loading
  /\ pagination.last_page > 1
  /\ \/ /\ pagination.current_page /= 1
        /\ laHandlePageChange(pagination.current_page - 1)
     \/ \E page \in LoginActivityPageButtons : laHandlePageChange(page)
     \/ /\ pagination.current_page /= pagination.last_page
        /\ laHandlePageChange(pagination.current_page + 1)
  /\ steps' = steps + 1
  /\ UNCHANGED OtherThanLoginActivities

\* the Refresh button (disabled while refreshing): fetchActivities(true)
laRefresh ==
  /\ Mounted("LoginActivities")
  /\ ~loading
  /\ ~refreshing
  /\ refreshing' = TRUE
  /\ inFlight' = Append(inFlight, Fetch(FetchDeps(laFilters), TRUE))
  /\ steps' = steps + 1
  /\ UNCHANGED <<activeTab, laFilters, pagination, loading, activities,
                 answered, OtherThanLoginActivities>>

RemoveAt(seq, i) == SubSeq(seq, 1, i - 1) \o SubSeq(seq, i + 1, Len(seq))

\* a call of fetchActivities settles, in any order of arrival: with a page
\* of results for the filters it sent, with an unsuccessful body, or with an
\* error; its finally block clears loading and refreshing
laResult ==
  /\ booted
  /\ route = "LoginActivities"
  /\ \E i \in DOMAIN inFlight :
       /\ inFlight' = RemoveAt(inFlight, i)
       /\ \/ /\ activities' = RowsFor(inFlight[i].query)
             /\ \E lp \in 1..MaxLastPage :
                  pagination' = [current_page |-> inFlight[i].query["page"].v,
                                 last_page |-> lp]
             /\ answered' =
                  (answered \/ inFlight[i].query = FetchDeps(laFilters))
          \/ UNCHANGED <<activities, pagination, answered>>
          \/ /\ activities' = NoRows
             /\ answered' = FALSE
             /\ UNCHANGED pagination
  /\ loading' = FALSE
  /\ refreshing' = FALSE
  /\ UNCHANGED <<activeTab, laFilters, steps, OtherThanLoginActivities>>

(***************************************************************************)
(* The system.                                                             *)
(***************************************************************************)
Next ==
  \/ initAuth
  \/ Login
  \/ Logout
  \/ unauthorizedResponse
  \/ Navigate
  \/ setSearch
  \/ handleSearch
  \/ stageFilterEdit
  \/ applyFilters
  \/ clearFilters
  \/ sortColumn
  \/ previousPage
  \/ nextPage
  \/ urlPreset
  \/ callLogsResult
  \/ devicesStatusChange
  \/ devicesBranchChange
  \/ devicesUserChange
  \/ devicesPermissionChange
  \/ devicesPreviousPage
  \/ devicesNextPage
  \/ devicesResult
  \/ usersStageId
  \/ usersStageName
  \/ usersBranchChange
  \/ usersHandleSearch
  \/ usersHandleClearFilters
  \/ usersPageClick
  \/ usersPerPageChange
  \/ usersResult
  \/ adminsDelete
  \/ laTabChange
  \/ laFilterChange
  \/ laPageClick
  \/ laRefresh
  \/ laResult

Spec == Init /\ [][Next]_vars

(***************************************************************************)
(* The date and time filters of the CallLogs view, followed through        *)
(* sequences of any length: the panel's date and time controls, Apply,     *)
(* Clear All and a deep link from the dashboard.  The                      *)
(* handlers are those of the system above, without its bound on the        *)
(* number of handler invocations.                                          *)
(***************************************************************************)
TimeDateKeys == {"date_from", "date_to", "time_from", "time_to"}
TimeDatePeriods == {Null, Str("daily"), Str("yearly")}

OnCallLogs == booted /\ route = "CallLogs"

timeDateEdit ==
  /\ OnCallLogs
  /\ \E key \in TimeDateKeys : \E text \in InputTexts(key) :
       handleFilterChange(key, ControlValue(key, text))
  /\ UNCHANGED <<steps, OtherThanCallLogs>>

timeDateApply ==
  /\ OnCallLogs
  /\ applyFiltersCall
  /\ UNCHANGED steps

timeDateClear ==
  /\ OnCallLogs
  /\ clearFiltersCall
  /\ UNCHANGED steps

timeDatePreset ==
  /\ OnCallLogs
  /\ \E callType \in CallTypeParams, period \in TimeDatePeriods :
       \E today \in Todays : urlPresetFor(callType, period, today)
  /\ UNCHANGED steps

NextTimeDate ==
  \/ initAuth
  \/ Login
  \/ Navigate
  \/ timeDateEdit
  \/ timeDateApply
  \/ timeDateClear
  \/ timeDatePreset

SpecTimeDate == Init /\ [][NextTimeDate]_vars

(***************************************************************************)
(* The export buttons of the CallLogs view.  An export call belongs to the *)
(* instance of the view that started it; a call whose instance has been    *)
(* unmounted goes on, and its setExporting(null) changes nothing.          *)
(***************************************************************************)
MaxExports == 2

OtherThanExport ==
  <<authVars, routeVars, devicesVars, usersVars, adminsVars,
    loginActivitiesVars, audioVars, filters, pendingFilters, search, data,
    lastOp, steps>>

\* disabled={exporting !== null}, on both buttons
ExportDisabled == exporting /= NoExport

\* the export calls started by instances of the view that are gone
OrphanExports == exportsInFlight - (IF ExportDisabled THEN 1 ELSE 0)

\* handleExportExcel / handleExportPdf up to the await
startExport(kind) ==
  /\ OnCallLogs
  /\ ~ExportDisabled
  /\ exportsInFlight < MaxExports
  /\ exporting' = Str(kind)
  /\ exportsInFlight' = exportsInFlight + 1
  /\ UNCHANGED <<lastAlert, OtherThanExport>>

handleExportExcel == ExcelExportOffered /\ startExport("excel")

handleExportPdf == PdfExportOffered /\ startExport("pdf")

ExportFailedAlert(kind) ==
  IF kind = Str("excel")
    THEN "Failed to export Excel file. Please try again."
    ELSE "Failed to export PDF file. Please try again."

\* the export call of the mounted view settles: catch on failure, finally
exportSettles ==
  /\ OnCallLogs
  /\ ExportDisabled
  /\ \/ UNCHANGED lastAlert
     \/ lastAlert' = ExportFailedAlert(exporting)
  /\ exporting' = NoExport
  /\ exportsInFlight' = exportsInFlight - 1
  /\ UNCHANGED OtherThanExport

\* the export call of an unmounted instance settles: its alert on failure
\* is shown all the same
orphanExportSettles ==
  /\ booted
  /\ OrphanExports > 0
  /\ \/ UNCHANGED lastAlert
     \/ \E kind \in ExportKinds : lastAlert' = ExportFailedAlert(Str(kind))
  /\ exportsInFlight' = exportsInFlight - 1
  /\ UNCHANGED <<exporting, OtherThanExport>>

NextExport ==
  \/ initAuth
  \/ Login
  \/ Logout
  \/ Navigate
  \/ handleExportExcel
  \/ handleExportPdf
  \/ exportSettles
  \/ orphanExportSettles

SpecExport == Init /\ [][NextExport]_vars

(***************************************************************************)
(* The AudioPlayer of a recording in the details of a call log.  Times are *)
(* whole seconds, the volume is in tenths.                                 *)
(***************************************************************************)
MaxDuration == 2

OtherThanAudio ==
  <<authVars, routeVars, callLogsVars, devicesVars, usersVars, adminsVars,
    loginActivitiesVars, exportVars, steps>>

\* the loadedmetadata listener
updateDuration ==
  /\ OnCallLogs
  /\ duration = 0
  /\ \E d \in 1..MaxDuration : duration' = d
  /\ UNCHANGED <<isPlaying, currentTime, volume, isMuted, audioMuted,
                 OtherThanAudio>>

togglePlay ==
  /\ OnCallLogs
  /\ isPlaying' = ~isPlaying
  /\ UNCHANGED <<currentTime, duration, volume, isMuted, audioMuted,
                 OtherThanAudio>>

\* the timeupdate listener, as playback advances
updateTime ==
  /\ OnCallLogs
  /\ isPlaying
  /\ currentTime < duration
  /\ currentTime' = currentTime + 1
  /\ UNCHANGED <<isPlaying, duration, volume, isMuted, audioMuted,
                 OtherThanAudio>>

\* the ended listener
handleEnded ==
  /\ OnCallLogs
  /\ isPlaying
  /\ duration > 0
  /\ currentTime = duration
  /\ isPlaying' = FALSE
  /\ UNCHANGED <<currentTime, duration, volume, isMuted, audioMuted,
                 OtherThanAudio>>

handleSeek ==
  /\ OnCallLogs
  /\ \E time \in 0..duration : currentTime' = time
  /\ UNCHANGED <<isPlaying, duration, volume, isMuted, audioMuted,
                 OtherThanAudio>>

\* sets the volume of the element and of the state, and isMuted; the muted
\* property of the element is not written
handleVolumeChange ==
  /\ OnCallLogs
  /\ \E vol \in VolumeSteps :
       /\ volume' = vol
       /\ isMuted' = (vol = 0)
  /\ UNCHANGED <<isPlaying, currentTime, duration, audioMuted,
                 OtherThanAudio>>

toggleMute ==
  /\ OnCallLogs
  /\ LET newMuted == ~isMuted
     IN /\ isMuted' = newMuted
        /\ audioMuted' = newMuted
  /\ UNCHANGED <<isPlaying, currentTime, duration, volume, OtherThanAudio>>

NextAudio ==
  \/ initAuth
  \/ Login
  \/ Navigate
  \/ updateDuration
  \/ togglePlay
  \/ updateTime
  \/ handleEnded
  \/ handleSeek
  \/ handleVolumeChange
  \/ toggleMute

SpecAudio == Init /\ [][NextAudio]_vars

(***************************************************************************)
(* The pager of the Users view over longer lists: results of up to         *)
(* MaxPagerPages pages, and any number of page clicks.                     *)
(***************************************************************************)
MaxPagerPages == 8

OnUsers == booted /\ route = "Users"

\* the response of the pending users query arrives
pagerResult ==
  /\ OnUsers
  /\ usersData = NoData
  /\ \E lp \in 1..MaxPagerPages :
       usersData' = [last_page |-> lp, total |-> 50]
  /\ UNCHANGED <<idFilterStaging, nameFilterStaging, idFilter, nameFilter,
                 branchFilter, currentPage, perPage, steps, OtherThanUsers>>

\* Previous, a page-number button, or Next
pagerPageClick ==
  /\ OnUsers
  /\ UsersPaginationShown
  /\ \/ currentPage /= 1 /\ handlePageChange(currentPage - 1)
     \/ \E i \in DOMAIN pageNumbers : handlePageChange(pageNumbers[i])
     \/ /\ currentPage /= usersData.last_page
        \* Next is followed up to page MaxPagerPages
        /\ currentPage < MaxPagerPages
        /\ handlePageChange(currentPage + 1)
  /\ UNCHANGED <<steps, OtherThanUsers>>

NextPager ==
  \/ initAuth
  \/ Login
  \/ Navigate
  \/ pagerResult
  \/ pagerPageClick

SpecPager == Init /\ [][NextPager]_vars

(***************************************************************************)
(* Properties.                                                             *)
(***************************************************************************)

\* C1: for a manager whose branch_id is set, the query of the call-logs,
\* devices and users views always carries the manager's own branch_id,
\* whatever was staged, applied, cleared, searched, sorted, paged or preset.
C1_ManagerBranchForced ==
  ManagerWithBranch =>
    /\ route = "CallLogs" => Get(CallLogsQuery, "branch_id") = admin.branch_id
    /\ route = "Devices" => Get(DevicesQuery, "branch_id") = admin.branch_id
    /\ route = "Users" => UsersQuery.branch_id = admin.branch_id

\* a manager has staged an edit to another branch while the applied filters
\* carry the manager's own
C1_Witness ==
  /\ ManagerWithBranch
  /\ route = "CallLogs"
  /\ Truthy(Get(pendingFilters, "branch_id"))
  /\ Get(pendingFilters, "branch_id") /= admin.branch_id
  /\ Get(filters, "branch_id") = admin.branch_id

\* C2: for a trainee with assigned users, the applied user_id of the
\* call-logs view is always one of the assigned ids; it is the first one
\* while no user was chosen and after an apply with no user selected, and an
\* apply with a user outside the assigned set changes nothing applied.
C2_TraineeUserInAssignedSet ==
  [][ /\ (TraineeWithUsers /\ route = "CallLogs")' =>
           /\ Includes(admin.assigned_user_ids, Get(filters, "user_id"))'
           /\ ("user_id" \notin DOMAIN pendingFilters =>
                 Get(filters, "user_id") = Num(admin.assigned_user_ids[1]))'
      /\ ( /\ applyFilters
           /\ TraineeWithUsers
           /\ ~TimeWithoutDate(pendingFilters)
           /\ ~Truthy(Get(pendingFilters, "user_id")) ) =>
           Get(filters', "user_id") = Num(admin.assigned_user_ids[1])
      /\ ( /\ applyFilters
           /\ TraineeWithUsers
           /\ Truthy(Get(pendingFilters, "user_id"))
           /\ ~Includes(admin.assigned_user_ids,
                        Get(pendingFilters, "user_id")) ) =>
           filters' = filters
    ]_vars

\* an apply for a user outside the assigned set has been rejected
C2_Witness ==
  /\ TraineeWithUsers
  /\ route = "CallLogs"
  /\ Truthy(Get(pendingFilters, "user_id"))
  /\ ~Includes(admin.assigned_user_ids, Get(pendingFilters, "user_id"))
  /\ lastAlert = "You can only view call logs for your assigned users"

\* C3: a trainee whose assigned_user_ids is empty never has a call-logs
\* query whose users are not all in the (empty) assigned set.
C3_EmptyTraineeSeesNothing ==
  (HasRole(admin, "trainee") /\ Len(admin.assigned_user_ids) = 0
     /\ route = "CallLogs") =>
    LET allUsers == {1, 2, 3}
        queried ==
          IF Truthy(Get(CallLogsQuery, "user_id"))
            THEN {Get(CallLogsQuery, "user_id").v}
            ELSE allUsers
        assigned ==
          {admin.assigned_user_ids[i] : i \in 1..Len(admin.assigned_user_ids)}
    IN queried \subseteq assigned

\* C4: an authenticated session without an admin record, or with a role
\* other than super_admin, manager and trainee, is shown no resource view
\* and no navigation entry to one.
C4_FailClosed ==
  (isAuthenticated /\ (admin = NoAdmin \/ admin.admin_role \notin KnownRoles))
    =>
    /\ route \notin {"CallLogs", "Devices", "Branches", "Users", "Admins",
                     "LoginActivities"}
    /\ SidebarPaths \subseteq {"/dashboard"}

\* C5: with an admin record present, the Admins view is rendered only for
\* super_admin and the Devices and LoginActivities views only for
\* super_admin or manager; any other role that navigates there ends on the
\* dashboard.
C5_RoleRestrictedViews ==
  (isAuthenticated /\ admin /= NoAdmin) =>
    /\ route = "Admins" => admin.admin_role = "super_admin"
    /\ route \in {"Devices", "LoginActivities"} =>
         admin.admin_role \in {"super_admin", "manager"}
    /\ (requested = "/admins" /\ admin.admin_role /= "super_admin") =>
         route = "Dashboard"
    /\ (requested \in {"/devices", "/login-activities"}
          /\ admin.admin_role \notin {"super_admin", "manager"}) =>
         route = "Dashboard"

\* a trainee has navigated to /admins and is on the dashboard
C5_Witness ==
  /\ HasRole(admin, "trainee")
  /\ isAuthenticated
  /\ requested = "/admins"
  /\ route = "Dashboard"

\* C6 as stated: a trainee is never shown the Users view (so no users query
\* is issued for a trainee).
C6_TraineeNeverOnUsers == HasRole(admin, "trainee") => route /= "Users"

\* C6 as amended: a trainee who navigates to /users is shown the Users view;
\* its query carries the trainee's own branch_id (none when the trainee has
\* no branch) and no create, edit or delete action is offered.
C6_TraineeUsersReadOnlyBranchScoped ==
  (HasRole(admin, "trainee") /\ isAuthenticated /\ requested = "/users") =>
    /\ route = "Users"
    /\ UsersQuery.branch_id = NullishToUndefined(admin.branch_id)
    /\ ~UserCreateOffered
    /\ ~UserEditOffered
    /\ ~UserDeleteOffered

\* a trainee of branch 1 is on the Users view with a result shown
C6_Witness ==
  /\ HasRole(admin, "trainee")
  /\ route = "Users"
  /\ UsersQuery.branch_id = Num(1)
  /\ usersData /= NoData

\* C7 as stated: a manager who navigates to /branches is shown the Branches
\* view without create, edit or delete actions.
C7_ManagerBranchesReadOnly ==
  (HasRole(admin, "manager") /\ isAuthenticated /\ requested = "/branches") =>
    /\ route = "Branches"
    /\ ~BranchCreateOffered
    /\ ~BranchEditOffered
    /\ ~BranchDeleteOffered

\* C7 as amended: a manager never sees the Branches view: navigating to
\* /branches ends on the dashboard, the sidebar has no Branches entry, and
\* so none of its create, edit or delete actions is offered.
C7_ManagerBranchesRedirected ==
  (HasRole(admin, "manager") /\ isAuthenticated) =>
    /\ route /= "Branches"
    /\ requested = "/branches" => route = "Dashboard"
    /\ "/branches" \notin SidebarPaths
    /\ ~BranchCreateOffered
    /\ ~BranchEditOffered
    /\ ~BranchDeleteOffered

\* a manager has navigated to /branches and is on the dashboard
C7_Witness ==
  /\ HasRole(admin, "manager")
  /\ isAuthenticated
  /\ requested = "/branches"
  /\ route = "Dashboard"

C9_NoSelfDelete ==
  (route = "Admins" /\ admin /= NoAdmin) =>
    /\ admin.id \notin deleteCalls
    /\ ~AdminDeleteOffered(admin.id)

\* handleDelete was called with the acting admin's own id and refused
C9_Witness ==
  /\ route = "Admins"
  /\ admin /= NoAdmin
  /\ lastToast = "You cannot delete your own account"
  /\ deleteCalls = {}

\* C10: an apply whose pending set has time_from or time_to but neither
\* date_from nor date_to fails with the date alert and leaves filters, the
\* query result and pendingFilters exactly as they were.
C10_TimeWithoutDateRejected ==
  [][ ( /\ applyFilters
        /\ Truthy(Get(pendingFilters, "time_from"))
             \/ Truthy(Get(pendingFilters, "time_to"))
        /\ ~Truthy(Get(pendingFilters, "date_from"))
        /\ ~Truthy(Get(pendingFilters, "date_to")) ) =>
        /\ filters' = filters
        /\ pendingFilters' = pendingFilters
        /\ data' = data
        /\ lastAlert' = "Please select a date when using time filters"
    ]_vars

\* a time-only pending set (time_to without any date) has been refused
C10_Witness ==
  /\ route = "CallLogs"
  /\ lastAlert = "Please select a date when using time filters"
  /\ Truthy(Get(pendingFilters, "time_to"))
  /\ ~Truthy(Get(pendingFilters, "time_from"))

\* C11: on the call-logs view, right after a sort selection, a successful
\* apply of the pending filters and a URL preset, the applied page is 1.
C11_PageOneAfterSortApplyPreset ==
  [][ /\ (lastOp'.op = "handleSort" /\ sortColumn) =>
           Get(filters', "page") = Num(1)
      /\ (lastOp'.op = "applyFilters" /\ applyFilters /\ lastAlert' = "none") =>
           Get(filters', "page") = Num(1)
      /\ (lastOp'.op = "urlPreset" /\ urlPreset) =>
           Get(filters', "page") = Num(1)
    ]_vars

\* a column of a list with several pages has just been sorted
C11_Witness ==
  /\ route = "CallLogs"
  /\ lastOp = Op("handleSort")
  /\ steps = 2
  /\ Get(filters, "page") = Num(1)
  /\ Truthy(Get(filters, "sort_by"))

\* C12: in the users, devices and login-activities views, a step that
\* changes a query key other than the page leaves the view on page 1.
C12_PageOneAfterKeyChange ==
  [][ /\ ( /\ route = "Users" /\ route' = "Users"
           /\ <<idFilter, nameFilter, branchFilter, perPage>>'
                /= <<idFilter, nameFilter, branchFilter, perPage>> ) =>
           currentPage' = 1
      /\ ( /\ route = "Devices" /\ route' = "Devices"
           /\ [k \in DOMAIN devFilters' \ {"page"} |-> devFilters'[k]]
                /= [k \in DOMAIN devFilters \ {"page"} |-> devFilters[k]] ) =>
           Get(devFilters', "page") = Num(1)
      /\ ( /\ route = "LoginActivities" /\ route' = "LoginActivities"
           /\ [k \in DOMAIN laFilters' \ {"page"} |-> laFilters'[k]]
                /= [k \in DOMAIN laFilters \ {"page"} |-> laFilters[k]] ) =>
           Get(laFilters', "page") = Num(1)
    ]_vars

\* C13: while a result is known, the applied page of the call-logs and
\* devices views lies between 1 and the last_page the result reports.
C13_PageInRange ==
  /\ (route = "CallLogs" /\ data /= NoData) =>
       /\ Get(filters, "page").t = "number"
       /\ Get(filters, "page").v \in 1..data.last_page
  /\ (route = "Devices" /\ devData /= NoData) =>
       /\ Get(devFilters, "page").t = "number"
       /\ Get(devFilters, "page").v \in 1..devData.last_page

\* C14: the applied filters of the call-logs view always hold a page that
\* is at least 1 and a per_page that is positive.
C14_PageAndPerPagePresent ==
  route = "CallLogs" =>
    /\ "page" \in DOMAIN filters
    /\ filters["page"].t = "number"
    /\ filters["page"].v >= 1
    /\ "per_page" \in DOMAIN filters
    /\ filters["per_page"].t = "number"
    /\ filters["per_page"].v > 0

\* Previous has brought the view back from page 2 to page 1
C14_Witness ==
  /\ route = "CallLogs"
  /\ lastOp = Op("previousPage")
  /\ filters["page"] = Num(1)

\* C15: the applied filters of the call-logs view never hold a key whose
\* value is undefined or the empty string.
C15_NoEmptyValues ==
  route = "CallLogs" =>
    \A k \in DOMAIN filters : filters[k] /= Undefined /\ filters[k] /= Str("")

\* C16: a numeric filter field that was entered as NaN or as a negative
\* number never reaches the applied filters with that value.
C16_NegativeNumbersAbsent ==
  route = "CallLogs" =>
    \A k \in NumericKeys \cap DOMAIN filters :
      \/ filters[k] = Undefined
      \/ filters[k].t = "number" /\ filters[k].v >= 0

\* C17: a sort selection of a column other than the current sort_by gives
\* that column with sort_order asc; a selection of the current sort_by column
\* flips sort_order between asc and desc.
C17_SortToggles ==
  [][ (lastOp'.op = "handleSort" /\ sortColumn) =>
        /\ \E column \in SortColumns : Get(filters', "sort_by") = Str(column)
        /\ Get(filters', "sort_order") =
             IF Get(filters', "sort_by") /= Get(filters, "sort_by")
               THEN Str("asc")
               ELSE IF Get(filters, "sort_order") = Str("asc")
                      THEN Str("desc") ELSE Str("asc")
    ]_vars

\* call_type was selected twice from an unsorted list
C17_Witness ==
  /\ route = "CallLogs"
  /\ lastOp = Op("handleSort")
  /\ steps = 2
  /\ Get(filters, "sort_by") = Str("call_type")
  /\ Get(filters, "sort_order") = Str("desc")

\* C18: a URL preset applied right after the same preset (same call_type,
\* period and calendar date) leaves the applied filters as they are.
C18_PresetIdempotent ==
  [][ (lastOp'.op = "urlPreset" /\ lastOp'.repeated /\ urlPreset) =>
        filters' = filters
    ]_vars

\* the same preset has been applied twice in a row
C18_Witness ==
  /\ route = "CallLogs"
  /\ lastOp.op = "urlPreset"
  /\ lastOp.repeated
  /\ Get(filters, "call_type") = Str("incoming")

\* C19: after a URL preset the applied filters are the base state of the
\* identity (page 1, per_page 20, the manager's branch_id or the trainee's
\* first assigned user_id) plus the preset's call_type and date range;
\* nothing else that was applied before is left.
C19_PresetOverBaseState ==
  [][ (lastOp'.op = "urlPreset" /\ urlPreset) =>
        LET base ==
              Spread(Spread([page |-> Num(1), per_page |-> Num(20)],
                            IF TraineeWithUsers
                              THEN [user_id |->
                                      Num(admin.assigned_user_ids[1])]
                              ELSE EmptyObject),
                     IF ManagerWithBranch
                       THEN [branch_id |-> admin.branch_id]
                       ELSE EmptyObject)
            presetKeys == {"call_type", "date_from", "date_to"}
            range == getDateRangeForPeriod(lastOp'.period.v, lastOp'.today)
        IN /\ DOMAIN base \subseteq DOMAIN filters'
           /\ DOMAIN filters' \subseteq DOMAIN base \cup presetKeys
           /\ \A k \in DOMAIN base : filters'[k] = base[k]
           /\ IF Truthy(lastOp'.callType)
                THEN Get(filters', "call_type") = lastOp'.callType
                ELSE "call_type" \notin DOMAIN filters'
           /\ IF Truthy(lastOp'.period)
                THEN /\ Get(filters', "date_from") = range.date_from
                     /\ Get(filters', "date_to") = range.date_to
                ELSE /\ "date_from" \notin DOMAIN filters'
                     /\ "date_to" \notin DOMAIN filters'
    ]_vars

\* a preset has been applied for a manager after another handler had run
C19_Witness ==
  /\ route = "CallLogs"
  /\ ManagerWithBranch
  /\ lastOp.op = "urlPreset"
  /\ steps = 2
  /\ Get(filters, "branch_id") = admin.branch_id
  /\ Get(filters, "call_type") = Str("incoming")
  /\ "sort_by" \notin DOMAIN filters

\* C20: Clear All leaves the applied filters at the base state of the
\* identity (page 1, per_page 20, the manager's branch_id or the trainee's
\* first assigned user_id and nothing else) and the pending filters empty.
C20_ClearKeepsForcedConstraint ==
  [][ (lastOp'.op = "clearFilters" /\ clearFilters) =>
        /\ filters' =
             Spread(Spread([page |-> Num(1), per_page |-> Num(20)],
                           IF TraineeWithUsers
                             THEN [user_id |-> Num(admin.assigned_user_ids[1])]
                             ELSE EmptyObject),
                    IF ManagerWithBranch
                      THEN [branch_id |-> admin.branch_id]
                      ELSE EmptyObject)
        /\ pendingFilters' = EmptyObject
    ]_vars

\* a trainee has cleared the filters and still has the first assigned user
C20_Witness ==
  /\ route = "CallLogs"
  /\ TraineeWithUsers
  /\ lastOp = Op("clearFilters")
  /\ steps = 2
  /\ filters =
       [page |-> Num(1), per_page |-> Num(20),
        user_id |-> Num(admin.assigned_user_ids[1])]
  /\ pendingFilters = EmptyObject

\* C21: results are last-write-wins on filter identity, not arrival order:
\* once every call of fetchActivities has settled, a page of results for the
\* current filters among them and no failure after it, the rows and the
\* pagination shown are
\* those of the response for the current filters, also when the response to
\* older filters arrived last.
C21_LatestFiltersWin ==
  (/\ booted
   /\ route = "LoginActivities"
   /\ inFlight = <<>>
   /\ answered)
    => /\ activities = RowsFor(FetchDeps(laFilters))
       /\ pagination.current_page = laFilters["page"].v

\* C22: protected routes require authentication: in a session that is not
\* authenticated, whichever of the paths has been navigated to, the view
\* rendered is the login page and none of the protected views.
C22_ProtectedRoutesRequireAuth ==
  ~isAuthenticated => route = "Login"

\* an unauthenticated session has navigated to /admins and is on the login page
C22_Witness ==
  /\ booted
  /\ ~isAuthenticated
  /\ requested = "/admins"
  /\ route = "Login"

\* C23: automatic logout on an unauthorized response: from the response on
\* and until a login succeeds, both localStorage entries are absent, the
\* store is unauthenticated (isAuthenticated false, admin and token null)
\* and the application is on the login page.
C23_LogoutOnUnauthorized ==
  expired =>
    /\ storedToken = StoredMissing
    /\ storedAdmin = StoredMissing
    /\ ~isAuthenticated
    /\ admin = NoAdmin
    /\ token = NoToken
    /\ route = "Login"

\* after the response and the reload, initAuth has run and a protected path
\* has been asked for
C23_Witness ==
  /\ expired
  /\ booted
  /\ requested = "/dashboard"

\* C24: page navigation changes only the page: a Previous or Next step on
\* the call-logs view leaves every applied key other than page, and the
\* whole of the pending filters, as they were, so that a staged edit that
\* was not applied does not reach the query.
C24_PageStepChangesOnlyPage ==
  [][ ((lastOp'.op \in {"previousPage", "nextPage"})
         /\ (previousPage \/ nextPage)) =>
        /\ pendingFilters' = pendingFilters
        /\ DOMAIN filters' = DOMAIN filters \cup {"page"}
        /\ \A k \in DOMAIN filters \ {"page"} : filters'[k] = filters[k]
        /\ filters'["page"] /= Get(filters, "page")
        /\ search' = search
    ]_vars

\* Next has been pressed while an edit was staged and not applied
C24_Witness ==
  /\ route = "CallLogs"
  /\ lastOp = Op("nextPage")
  /\ filters["page"] = Num(2)
  /\ Truthy(Get(pendingFilters, "number"))
  /\ ~Truthy(Get(filters, "number"))

\* C25: on the call-logs view, applied filters with time_from or time_to set
\* have date_from or date_to set as well.
C25_AppliedTimeHasDate ==
  (route = "CallLogs"
   /\ (Truthy(Get(filters, "time_from")) \/ Truthy(Get(filters, "time_to"))))
    => (Truthy(Get(filters, "date_from")) \/ Truthy(Get(filters, "date_to")))

\* a date and a time were applied, and the date control was emptied after
C25_Witness ==
  /\ route = "CallLogs"
  /\ Truthy(Get(filters, "time_to"))
  /\ Truthy(Get(filters, "date_from"))
  /\ "date_from" \in DOMAIN pendingFilters
  /\ pendingFilters["date_from"] = Undefined
  /\ lastOp = Op("applyFilters")

\* C26: in the auth store, isAuthenticated is true exactly when admin and
\* token are both non-null, whatever localStorage held when initAuth ran.
C26_AuthenticatedIffAdminAndToken ==
  isAuthenticated <=> (admin /= NoAdmin /\ token /= NoToken)

\* C27: for an admin of one of the roles super_admin, manager and trainee,
\* the entries the sidebar shows are exactly the paths whose route renders
\* a view for that admin.
C27_SidebarMatchesRoutes ==
  (isAuthenticated /\ admin /= NoAdmin /\ admin.admin_role \in KnownRoles)
    => SidebarPaths = EnterablePaths

\* a manager is on a view, with a sidebar that leaves out branches and admins
C27_Witness ==
  /\ booted
  /\ HasRole(admin, "manager")
  /\ route = "Users"
  /\ SidebarPaths = ViewPaths \ {"/branches", "/admins"}

\* C28: at most one call-log export is in flight at a time, and while an
\* export is in flight both export buttons of the call-logs view are
\* disabled.
C28_SingleExport ==
  /\ exportsInFlight <= 1
  /\ (OnCallLogs /\ exportsInFlight > 0) => ExportDisabled

\* C29: in the audio player, the muted flag shown (isMuted) equals the
\* muted property of the audio element; in particular the player does not
\* show the unmuted icon (isMuted false, volume above 0) while the audio
\* element is muted.
C29_NotShownUnmutedWhileMuted ==
  (OnCallLogs /\ audioMuted) => (isMuted \/ volume = 0)

\* C30: on the users view, for a result of last_page >= 1 pages and a
\* current page between 1 and last_page, the page-number window is a run of
\* min(5, last_page) consecutive increasing page numbers, all within
\* 1..last_page, that contains the current page.
C30_PageWindow ==
  (/\ route = "Users"
   /\ usersData /= NoData
   /\ usersData.last_page >= 1
   /\ currentPage \in 1..usersData.last_page)
    => /\ Len(pageNumbers) = Min(5, usersData.last_page)
       /\ \A i \in 1..(Len(pageNumbers) - 1) :
            pageNumbers[i + 1] = pageNumbers[i] + 1
       /\ \A i \in DOMAIN pageNumbers :
            pageNumbers[i] \in 1..usersData.last_page
       /\ \E i \in DOMAIN pageNumbers : pageNumbers[i] = currentPage

\* page 7 of 8: the window has moved to the end of the list
C30_Witness ==
  /\ route = "Users"
  /\ usersData /= NoData
  /\ usersData.last_page = 8
  /\ currentPage = 7
  /\ pageNumbers = <<4, 5, 6, 7, 8>>

====
